---- MODULE Spec2Model ----
\* Storage-usage aggregation of web/src/pages/storage.ts: a flat list of
\* per-file records is grouped by node, accumulated along each file's ancestor
\* chain and emitted as a sorted tree of entries.
\*
\* Strings are sequences of one-character strings (<<"a","/","b">> is "a/b"),
\* so that replace, split, join and comparison are computed and not assumed.
\* An optional string is <<>> (null/undefined) or <<s>>.
\* percent is the exact rational [num, den] of (size / totalSize) * 100; the
\* rounding of IEEE doubles is below this model.
EXTENDS Integers, Sequences, FiniteSets, TLC

VARIABLES files, nodes, pc,
          sessionChecked, sessionAuth, matcher, location, pending, handled, fetchMeCalls,
          loading, error, inflight, started, outcomes,
          searchLoading, currentPage, totalResults, hasMore, observing, currentResults,
          query, searching, requests, submits,
          bearerToken, peersCache, peersPending, peerCalls, logoutPending, logoutLog, returns

storageVars == <<files, nodes, pc>>

routerVars == <<sessionChecked, sessionAuth, matcher, location, pending, handled, fetchMeCalls>>

loadVars == <<loading, error, inflight, started, outcomes>>

searchVars == <<searchLoading, currentPage, totalResults, hasMore, observing, currentResults,
                query, searching, requests, submits>>

apiVars == <<bearerToken, peersCache, peersPending, peerCalls, logoutPending, logoutLog, returns>>

pageVars == <<loadVars, searchVars, apiVars>>

vars == <<storageVars, routerVars, pageVars>>

\* ---------------------------------------------------------------- bounds
MaxFiles == 3

MaxPathLen == 4

MaxHandled == 4

MaxLoads == 3

MaxRequests == 3

MaxPeerCalls == 3

MaxLogouts == 2

\* ---------------------------------------------------------------- strings
EmptyStr == <<>>

None == <<>>

Some(s) == <<s>>

\* JavaScript truthiness of an optional string: null, undefined and "" are falsy.
Truthy(opt) == opt # None /\ opt[1] # EmptyStr

Digits == <<"0", "1", "2", "3", "4", "5", "6", "7", "8", "9", "a", "b", "c", "d", "e", "f">>

\* Collation order of the characters that occur in node names.
Collation == <<"0", "1", "2", "3", "4", "5", "6", "7", "8", "9", "a", "b", "c", "d", "e", "f", "k", "n", "o", "u", "w">>

\* The element of a one-element set; {e(x) : x \in {v}} binds x to the value of v.
The(S) == CHOOSE y \in S : TRUE

IndexOf(seq, c) == CHOOSE i \in 1..Len(seq) : seq[i] = c

Sum(f, S) == LET RECURSIVE Acc(_)
                 Acc(T) == IF T = {} THEN 0
                           ELSE LET x == CHOOSE y \in T : TRUE
                                IN f[x] + Acc(T \ {x})
             IN Acc(S)

Concat(seqs) == LET F[i \in 0..Len(seqs)] == IF i = 0 THEN <<>> ELSE F[i - 1] \o seqs[i]
                IN F[Len(seqs)]

\* Number.prototype.toString(radix) for a non-negative integer.
RECURSIVE ToStringRadix(_, _)
ToStringRadix(n, radix) ==
    IF n < radix THEN <<Digits[n + 1]>>
    ELSE ToStringRadix(n \div radix, radix) \o <<Digits[(n % radix) + 1]>>

\* String.prototype.padStart(2, "0")
PadStart2(s) == IF Len(s) < 2 THEN <<"0">> \o s ELSE s

\* Array.prototype.join(sep) over strings
Join(parts, sep) ==
    LET F[i \in 0..Len(parts)] ==
            IF i = 0 THEN <<>>
            ELSE IF i = 1 THEN parts[1]
            ELSE F[i - 1] \o sep \o parts[i]
    IN F[Len(parts)]

\* String.prototype.split("/"): the segments between separators, empty ones kept.
Split(s) ==
    LET F[i \in 0..Len(s)] ==
            IF i = 0 THEN <<EmptyStr>>
            ELSE IF s[i] = "/" THEN Append(F[i - 1], EmptyStr)
            ELSE [F[i - 1] EXCEPT ![Len(F[i - 1])] = Append(@, s[i])]
    IN F[Len(s)]

\* Array.prototype.sort(cmp): stable; a goes before b unless cmp[a, b] > 0.
\* cmp is the comparator as a function on pairs of elements of seq.
StableSort(seq, cmp) ==
    LET Ins(sorted, x) ==
            LET after == {j \in 1..Len(sorted) : cmp[sorted[j], x] <= 0}
                k == IF after = {} THEN 0 ELSE CHOOSE j \in after : \A m \in after : m <= j
            IN SubSeq(sorted, 1, k) \o <<x>> \o SubSeq(sorted, k + 1, Len(sorted))
        F[i \in 0..Len(seq)] == IF i = 0 THEN <<>> ELSE Ins(F[i - 1], seq[i])
    IN F[Len(seq)]

\* Code-unit comparison of strings: a >= b.
RECURSIVE StrGeq(_, _)
StrGeq(a, b) ==
    IF b = <<>> THEN TRUE
    ELSE IF a = <<>> THEN FALSE
    ELSE IF Head(a) = Head(b) THEN StrGeq(Tail(a), Tail(b))
    ELSE IndexOf(Collation, Head(a)) > IndexOf(Collation, Head(b))

\* String.prototype.localeCompare on the names' characters: -1, 0 or 1.
RECURSIVE localeCompare(_, _)
localeCompare(a, b) ==
    IF a = <<>> /\ b = <<>> THEN 0
    ELSE IF a = <<>> THEN -1
    ELSE IF b = <<>> THEN 1
    ELSE IF Head(a) = Head(b) THEN localeCompare(Tail(a), Tail(b))
    ELSE IF IndexOf(Collation, Head(a)) < IndexOf(Collation, Head(b)) THEN -1 ELSE 1

\* ---------------------------------------------------------------- storage.ts
\* Variant: only one leading slash is removed.
StripLeading_once(s) == IF s # <<>> /\ Head(s) = "/" THEN Tail(s) ELSE s

RECURSIVE StripLeading(_)
StripLeading(s) == IF s # <<>> /\ Head(s) = "/" THEN StripLeading(Tail(s)) ELSE s

RECURSIVE StripTrailing(_)
StripTrailing(s) ==
    IF s # <<>> /\ s[Len(s)] = "/" THEN StripTrailing(SubSeq(s, 1, Len(s) - 1)) ELSE s

normalizePath(value) ==
    StripTrailing(StripLeading([i \in 1..Len(value) |-> IF value[i] = "\\" THEN "/" ELSE value[i]]))

\* Variant: the timestamp seen last wins, whatever its value.
latestTimestamp_lastSeen(current, candidate) ==
    IF ~Truthy(candidate) THEN current ELSE candidate

latestTimestamp(current, candidate) ==
    IF ~Truthy(current) THEN candidate
    ELSE IF ~Truthy(candidate) THEN current
    ELSE IF StrGeq(current[1], candidate[1]) THEN current ELSE candidate

formatNodeId(bytes) ==
    IF Len(bytes) = 0 THEN <<"u", "n", "k", "n", "o", "w", "n">>
    ELSE Concat([i \in 1..Len(bytes) |-> PadStart2(ToStringRadix(bytes[i], 16))])

displayName(path) ==
    IF path = EmptyStr THEN <<"R", "o", "o", "t">>
    ELSE LET segments == SelectSeq(Split(path), LAMBDA segment : Len(segment) > 0)
         IN IF Len(segments) = 0 THEN <<"R", "o", "o", "t">> ELSE segments[Len(segments)]

\* Variant: the chain holds the bare segments instead of the growing path.
ancestorsOf_segments(file) ==
    LET normalized == normalizePath(file.path)
        segs == Split(normalized)
    IN IF Len(normalized) > 0
       THEN <<EmptyStr>> \o SelectSeq(segs, LAMBDA segment : segment # EmptyStr)
       ELSE <<EmptyStr>>

\* The ancestor chain of a file: lines 139-150 of buildStorageTree.
ancestorsOf(file) ==
    LET normalized == normalizePath(file.path)
        segs == Split(normalized)
        F[i \in 0..Len(segs)] ==
            IF i = 0 THEN [current |-> EmptyStr, ancestors |-> <<EmptyStr>>]
            ELSE IF segs[i] = EmptyStr THEN F[i - 1]
            ELSE LET current == IF F[i - 1].current # EmptyStr
                                THEN F[i - 1].current \o <<"/">> \o segs[i]
                                ELSE segs[i]
                 IN [current |-> current, ancestors |-> Append(F[i - 1].ancestors, current)]
    IN IF Len(normalized) > 0 THEN F[Len(segs)].ancestors ELSE <<EmptyStr>>

\* Variant: the size is overwritten instead of accumulated.
updateStats_overwrite(stats, path, file) ==
    LET has == path \in DOMAIN stats
        updated == [size |-> file.size,
                    itemCount |-> (IF has THEN stats[path].itemCount ELSE 0) + 1,
                    lastChanged |-> latestTimestamp(IF has THEN stats[path].lastChanged ELSE None,
                                                    file.last_changed)]
    IN IF has THEN [stats EXCEPT ![path] = updated] ELSE stats @@ (path :> updated)

\* Variant: a path is counted once, however many records reach it.
updateStats_distinct(stats, path, file) ==
    LET has == path \in DOMAIN stats
        updated == [size |-> (IF has THEN stats[path].size ELSE 0) + file.size,
                    itemCount |-> 1,
                    lastChanged |-> latestTimestamp(IF has THEN stats[path].lastChanged ELSE None,
                                                    file.last_changed)]
    IN IF has THEN [stats EXCEPT ![path] = updated] ELSE stats @@ (path :> updated)

\* One iteration of the statistics loop, lines 151-159.
updateStats(stats, path, file) ==
    LET has == path \in DOMAIN stats
        updated == [size |-> (IF has THEN stats[path].size ELSE 0) + file.size,
                    itemCount |-> (IF has THEN stats[path].itemCount ELSE 0) + 1,
                    lastChanged |-> latestTimestamp(IF has THEN stats[path].lastChanged ELSE None,
                                                    file.last_changed)]
    IN IF has THEN [stats EXCEPT ![path] = updated] ELSE stats @@ (path :> updated)

\* Variant: the children are kept in a list, so a shared edge is added again.
addEdge_list(children, parent, child) ==
    LET set == IF parent \in DOMAIN children THEN children[parent] ELSE <<>>
    IN IF parent \in DOMAIN children THEN [children EXCEPT ![parent] = Append(set, child)]
       ELSE children @@ (parent :> <<child>>)

\* Variant: a new child replaces the children already recorded for the parent.
addEdge_replace(children, parent, child) ==
    IF parent \in DOMAIN children THEN [children EXCEPT ![parent] = <<child>>]
    ELSE children @@ (parent :> <<child>>)

\* Variant: the edge is recorded from the child to the parent.
addEdge_reversed(children, parent, child) ==
    LET set == IF child \in DOMAIN children THEN children[child] ELSE <<>>
        added == IF \E i \in 1..Len(set) : set[i] = parent THEN set ELSE Append(set, parent)
    IN IF child \in DOMAIN children THEN [children EXCEPT ![child] = added]
       ELSE children @@ (child :> added)

\* One iteration of the edge loop, lines 160-169; a Set keeps insertion order.
addEdge(children, parent, child) ==
    LET set == IF parent \in DOMAIN children THEN children[parent] ELSE <<>>
        added == IF \E i \in 1..Len(set) : set[i] = child THEN set ELSE Append(set, child)
    IN IF parent \in DOMAIN children THEN [children EXCEPT ![parent] = added]
       ELSE children @@ (parent :> added)

EmptyMap == [x \in {} |-> 0]

\* The loop over the files of buildStorageTree, lines 136-170.
accumulate(records) ==
    LET PerFile(acc, file) ==
            LET ancestors == ancestorsOf(file)
                S[i \in 0..Len(ancestors)] ==
                    IF i = 0 THEN acc.stats ELSE updateStats(S[i - 1], ancestors[i], file)
                C[i \in 0..(Len(ancestors) - 1)] ==
                    IF i = 0 THEN acc.children
                    ELSE addEdge(C[i - 1], ancestors[i], ancestors[i + 1])
            IN [stats |-> S[Len(ancestors)], children |-> C[Len(ancestors) - 1]]
        F[i \in 0..Len(records)] ==
            IF i = 0 THEN [stats |-> EmptyMap, children |-> EmptyMap]
            ELSE PerFile(F[i - 1], records[i])
    IN F[Len(records)]

\* Variant: the ratio is taken the wrong way round.
percentOf_inverted(size, totalSize) ==
    IF totalSize = 0 \/ size = 0 THEN [num |-> 0, den |-> 1] ELSE [num |-> totalSize * 100, den |-> size]

\* Variant: a fraction, not a percentage.
percentOf_fraction(size, totalSize) ==
    IF totalSize = 0 THEN [num |-> 0, den |-> 1] ELSE [num |-> size, den |-> totalSize]

\* The percent expression of line 198.
percentOf(size, totalSize) ==
    IF totalSize = 0 THEN [num |-> 0, den |-> 1] ELSE [num |-> size * 100, den |-> totalSize]

\* Variant: the node total is handed down unchanged.
childTotal_nodeTotal(data, totalSize) == totalSize

\* The totalSize argument of the recursive call, line 206.
childTotal(data, totalSize) == data.size

\* Variant: ascending order.
sizeCompare_ascending(stats, a, b) ==
    (IF a \in DOMAIN stats THEN stats[a].size ELSE 0) - (IF b \in DOMAIN stats THEN stats[b].size ELSE 0)

\* The comparator of lines 187-191.
sizeCompare(stats, a, b) ==
    (IF b \in DOMAIN stats THEN stats[b].size ELSE 0) - (IF a \in DOMAIN stats THEN stats[a].size ELSE 0)

RECURSIVE buildStorageEntriesFor(_, _, _, _)
buildStorageEntriesFor(parent, stats, children, totalSize) ==
    IF parent \notin DOMAIN children THEN <<>>
    ELSE LET childPaths == {children[parent][i] : i \in 1..Len(children[parent])}
             sorted == StableSort(children[parent],
                                  [a \in childPaths, b \in childPaths |-> sizeCompare(stats, a, b)])
             present == SelectSeq(sorted, LAMBDA childPath : childPath \in DOMAIN stats)
         IN [i \in 1..Len(present) |->
                LET childPath == present[i]
                    data == stats[childPath]
                IN [path |-> childPath,
                    name |-> displayName(childPath),
                    size |-> data.size,
                    itemCount |-> data.itemCount,
                    lastChanged |-> data.lastChanged,
                    percent |-> percentOf(data.size, totalSize),
                    children |-> buildStorageEntriesFor(childPath, stats, children,
                                                        childTotal(data, totalSize))]]

\* Variant: the total is summed from the top-level entries.
buildStorageTree_topLevel(records) ==
    The({LET top == IF EmptyStr \in DOMAIN acc.children THEN acc.children[EmptyStr] ELSE <<>>
             totalSize == Sum([i \in 1..Len(top) |-> acc.stats[top[i]].size], 1..Len(top))
         IN [entries |-> buildStorageEntriesFor(EmptyStr, acc.stats, acc.children, totalSize),
             totalSize |-> totalSize] : acc \in {accumulate(records)}})

\* Variant: the root is emitted as an Entry that wraps the top level.
buildStorageTree_rootEntry(records) ==
    The({LET totalSize == IF EmptyStr \in DOMAIN acc.stats THEN acc.stats[EmptyStr].size ELSE 0
             top == buildStorageEntriesFor(EmptyStr, acc.stats, acc.children, totalSize)
         IN [entries |-> IF EmptyStr \in DOMAIN acc.stats
                         THEN <<[path |-> EmptyStr,
                                 name |-> displayName(EmptyStr),
                                 size |-> totalSize,
                                 itemCount |-> acc.stats[EmptyStr].itemCount,
                                 lastChanged |-> acc.stats[EmptyStr].lastChanged,
                                 percent |-> percentOf(totalSize, totalSize),
                                 children |-> top]>>
                         ELSE top,
             totalSize |-> totalSize] : acc \in {accumulate(records)}})

buildStorageTree(records) ==
    The({LET totalSize == IF EmptyStr \in DOMAIN acc.stats THEN acc.stats[EmptyStr].size ELSE 0
         IN [entries |-> buildStorageEntriesFor(EmptyStr, acc.stats, acc.children, totalSize),
             totalSize |-> totalSize] : acc \in {accumulate(records)}})

\* Variant: the bytes are joined without a separator.
groupKey_noSeparator(node_id) ==
    Join([i \in 1..Len(node_id) |-> ToStringRadix(node_id[i], 10)], <<>>)

\* file.node_id.join(",")
groupKey(node_id) ==
    Join([i \in 1..Len(node_id) |-> ToStringRadix(node_id[i], 10)], <<",">>)

\* The name a group gets when its first record arrives, line 115.
groupName(file) ==
    IF file.node_name # EmptyStr THEN file.node_name ELSE formatNodeId(file.node_id)

\* The grouping loop of buildStorageNodes, lines 104-120; a Map keeps insertion order.
groupFiles(input) ==
    LET Step(grouped, file) ==
            LET key == groupKey(file.node_id)
            IN IF \E g \in 1..Len(grouped) : grouped[g].key = key
               THEN [g \in 1..Len(grouped) |->
                        IF grouped[g].key = key
                        THEN [grouped[g] EXCEPT !.records = Append(@, file)]
                        ELSE grouped[g]]
               ELSE Append(grouped, [key |-> key, name |-> groupName(file),
                                     id |-> file.node_id, records |-> <<file>>])
        F[i \in 0..Len(input)] == IF i = 0 THEN <<>> ELSE Step(F[i - 1], input[i])
    IN F[Len(input)]

\* The Node pushed for one group, lines 122-130.
pushNode(group) ==
    The({[name |-> IF group.name # EmptyStr THEN group.name ELSE formatNodeId(group.id),
          id |-> formatNodeId(group.id),
          totalSize |-> tree.totalSize,
          entries |-> tree.entries] : tree \in {buildStorageTree(group.records)}})

\* Variant: the nodes are left in the order of the groups.
sortNodes_unsorted(pushed) == pushed

\* nodes.sort((a, b) => a.name.localeCompare(b.name)), line 131.
sortNodes(pushed) ==
    The({StableSort(pushed, [a \in all, b \in all |-> localeCompare(a.name, b.name)]) :
            all \in {{pushed[g] : g \in 1..Len(pushed)}}})

\* Variant: an empty input yields one placeholder node.
buildStorageNodes_placeholder(input) ==
    IF Len(input) = 0
    THEN <<[name |-> formatNodeId(<<>>), id |-> formatNodeId(<<>>), totalSize |-> 0, entries |-> <<>>]>>
    ELSE The({sortNodes([g \in 1..Len(grouped) |-> pushNode(grouped[g])]) :
                 grouped \in {groupFiles(input)}})

buildStorageNodes(input) ==
    IF Len(input) = 0 THEN <<>>
    ELSE The({sortNodes([g \in 1..Len(grouped) |-> pushNode(grouped[g])]) :
                 grouped \in {groupFiles(input)}})

\* ---------------------------------------------------------------- inputs
RECURSIVE SeqsUpTo(_, _)
SeqsUpTo(S, n) ==
    IF n = 0 THEN {<<>>}
    ELSE LET shorter == SeqsUpTo(S, n - 1)
         IN shorter \cup {Append(s, x) : s \in {t \in shorter : Len(t) = n - 1}, x \in S}

\* Raw paths: the root, plain and nested paths, a repeated separator, and
\* backslash / leading / trailing separators.
TreePaths == {<<"/">>, <<"a">>, <<"b">>, <<"a", "/", "b">>, <<"a", "/", "c">>,
              <<"a", "/", "/", "b">>, <<"\\", "a", "/">>}

TreeSizes == {0, 1, 2}

TreeFiles == [node_id : {<<1>>}, node_name : {EmptyStr}, path : TreePaths,
              size : TreeSizes, last_changed : {None}]

GroupIds == {<<>>, <<1, 2>>, <<12>>}

GroupNames == {EmptyStr, <<"b">>}

GroupFiles == [node_id : GroupIds, node_name : GroupNames, path : {<<"a">>, <<"/">>},
               size : {1, 2}, last_changed : {None}]

\* Records that collide on a path, with and without timestamps.
MergePaths == {<<"/">>, <<"a">>, <<"\\", "a", "/">>, <<"a", "/", "/", "b">>}

MergeFiles == [node_id : {<<1>>}, node_name : {EmptyStr}, path : MergePaths,
               size : {1, 2}, last_changed : {None, Some(<<"1">>), Some(<<"2">>)}]

\* ---------------------------------------------------------------- session and router
RootPath == <<"/">>

LoginPath == <<"/", "l", "o", "g", "i", "n">>

\* The module state of session.ts and router.ts when the modules are loaded.
RouterAtLoad == /\ sessionChecked = FALSE
                /\ sessionAuth = FALSE
                /\ matcher = None
                /\ pending = <<>>
                /\ handled = <<>>
                /\ fetchMeCalls = 0

\* The state object of the storage page as renderStorage creates it, lines
\* 245-250 of storage.ts, with no fetch issued yet.
LoadAtLoad == /\ loading = TRUE
              /\ error = None
              /\ inflight = {}
              /\ started = 0
              /\ outcomes = <<>>

\* The variables of renderSearch, lines 45-50 of search.ts, with an empty
\* input, nothing requested and nothing submitted.
SearchAtLoad == /\ searchLoading = FALSE
                /\ currentPage = 0
                /\ totalResults = 0
                /\ hasMore = FALSE
                /\ observing = FALSE
                /\ currentResults = <<>>
                /\ query = EmptyStr
                /\ searching = None
                /\ requests = <<>>
                /\ submits = <<>>

\* The module state of api.ts when it is loaded, lines 31-32, with no call made.
ApiAtLoad == /\ bearerToken = None
             /\ peersCache = None
             /\ peersPending = <<>>
             /\ peerCalls = 0
             /\ logoutPending = 0
             /\ logoutLog = <<>>
             /\ returns = <<>>

\* The state of the pages that take no part in a specification.
PagesAtLoad == LoadAtLoad /\ SearchAtLoad /\ ApiAtLoad

\* ---------------------------------------------------------------- behaviour
InitTree == /\ files \in SeqsUpTo(TreeFiles, MaxFiles)
            /\ nodes = <<>>
            /\ pc = "ready"
            /\ location = RootPath
            /\ RouterAtLoad
            /\ PagesAtLoad

InitGroup == /\ files \in SeqsUpTo(GroupFiles, MaxFiles)
             /\ nodes = <<>>
             /\ pc = "ready"
             /\ location = RootPath
             /\ RouterAtLoad
             /\ PagesAtLoad

\* loadStorage's use of the engine: state.nodes = buildStorageNodes(files)
BuildStorageNodes == /\ pc = "ready"
                     /\ nodes' = buildStorageNodes(files)
                     /\ pc' = "done"
                     /\ UNCHANGED <<files, routerVars, pageVars>>

Next == BuildStorageNodes

SpecTree == InitTree /\ [][Next]_vars

SpecGroup == InitGroup /\ [][Next]_vars

InitMerge == /\ files \in SeqsUpTo(MergeFiles, MaxFiles)
             /\ nodes = <<>>
             /\ pc = "ready"
             /\ location = RootPath
             /\ RouterAtLoad
             /\ PagesAtLoad

SpecMerge == InitMerge /\ [][Next]_vars

\* Records with no timestamp, an empty one, and two that string order and
\* numeric order rank differently ("9" > "10").
StampValues == {None, Some(EmptyStr), Some(<<"9">>), Some(<<"1", "0">>)}

StampFiles == [node_id : {<<1>>}, node_name : {EmptyStr},
               path : {<<"/">>, <<"a">>, <<"a", "/", "b">>},
               size : {1}, last_changed : StampValues]

InitStamp == /\ files \in SeqsUpTo(StampFiles, MaxFiles)
             /\ nodes = <<>>
             /\ pc = "ready"
             /\ location = RootPath
             /\ RouterAtLoad
             /\ PagesAtLoad

SpecStamp == InitStamp /\ [][Next]_vars

\* Records that differ in their path only, for the shape of the tree.
ChainFiles == [node_id : {<<1>>}, node_name : {EmptyStr}, path : TreePaths,
               size : {1}, last_changed : {None}]

InitChain == /\ files \in SeqsUpTo(ChainFiles, MaxFiles)
             /\ nodes = <<>>
             /\ pc = "ready"
             /\ location = RootPath
             /\ RouterAtLoad
             /\ PagesAtLoad

SpecChain == InitChain /\ [][Next]_vars

\* Every raw path over two plain characters and the two separators.
PathChars == {"a", "b", "/", "\\"}

PathFiles == [node_id : {<<1>>}, node_name : {EmptyStr}, path : SeqsUpTo(PathChars, MaxPathLen),
              size : {1}, last_changed : {None}]

InitPath == /\ files \in {<<f>> : f \in PathFiles}
            /\ nodes = <<>>
            /\ pc = "ready"
            /\ location = RootPath
            /\ RouterAtLoad
            /\ PagesAtLoad

SpecPath == InitPath /\ [][Next]_vars

\* ---------------------------------------------------------------- pattern-matcher.ts
\* pattern.split("/").filter((segment) => segment.length > 0)
PartsOf(s) == SelectSeq(Split(s), LAMBDA segment : Len(segment) > 0)

Includes(s, c) == \E i \in 1..Len(s) : s[i] = c

\* matchRoute, lines 40-72: None for null, Some(params) for a match.
matchRoute(pattern, path) ==
    LET patternParts == PartsOf(pattern)
        pathParts == PartsOf(path)
        lastPattern == IF Len(patternParts) > 0 THEN patternParts[Len(patternParts)] ELSE EmptyStr
        F[i \in 0..Len(patternParts)] ==
            IF i = 0 THEN [returned |-> FALSE, value |-> None, params |-> EmptyMap]
            ELSE IF F[i - 1].returned THEN F[i - 1]
            ELSE IF patternParts[i] = <<"*">>
                 THEN [F[i - 1] EXCEPT !.returned = TRUE, !.value = Some(F[i - 1].params)]
            ELSE IF Head(patternParts[i]) = ":"
                 THEN [F[i - 1] EXCEPT !.params = (Tail(patternParts[i]) :> pathParts[i]) @@ @]
            ELSE IF patternParts[i] # pathParts[i]
                 THEN [F[i - 1] EXCEPT !.returned = TRUE, !.value = None]
            ELSE F[i - 1]
    IN IF pattern = <<"/", "*">> THEN Some(EmptyMap)
       ELSE IF Len(patternParts) # Len(pathParts)
            THEN IF lastPattern = <<"*">> /\ Len(pathParts) >= Len(patternParts) - 1
                 THEN Some(EmptyMap)
                 ELSE None
       ELSE IF F[Len(patternParts)].returned THEN F[Len(patternParts)].value
       ELSE Some(F[Len(patternParts)].params)

\* The comparator of the route sort, lines 9-20.
routeCompare(a, b) ==
    IF ~Includes(a, "*") /\ ~Includes(a, ":") THEN -1
    ELSE IF ~Includes(b, "*") /\ ~Includes(b, ":") THEN 1
    ELSE IF Includes(a, ":") /\ ~Includes(b, ":") THEN -1
    ELSE IF ~Includes(a, ":") /\ Includes(b, ":") THEN 1
    ELSE IF Includes(a, "*") /\ ~Includes(b, "*") THEN 1
    ELSE IF ~Includes(a, "*") /\ Includes(b, "*") THEN -1
    ELSE Len(b) - Len(a)

\* patternMatcher: the keys of the handlers, sorted; lines 8-21.
patternMatcher(handlers) ==
    The({StableSort(handlers, [a \in all, b \in all |-> routeCompare(a, b)]) :
            all \in {{handlers[i] : i \in 1..Len(handlers)}}})

\* match, lines 23-36: the first route that matches, None when there is none.
\* The handler of that route is called here, by the caller of match.
match(routes, path) ==
    LET hits == {i \in 1..Len(routes) : matchRoute(routes[i], path) # None}
    IN IF hits = {} THEN None
       ELSE LET first == CHOOSE i \in hits : \A j \in hits : i <= j
            IN Some([pattern |-> routes[first], params |-> matchRoute(routes[first], path)[1]])

\* ---------------------------------------------------------------- session.ts, router.ts
\* The router and session state as one value, for the operators below.
RouterState == [sessionChecked |-> sessionChecked, sessionAuth |-> sessionAuth,
                matcher |-> matcher, location |-> location, pending |-> pending,
                handled |-> handled, fetchMeCalls |-> fetchMeCalls]

markSessionStatus(rt, authenticated) ==
    [rt EXCEPT !.sessionChecked = TRUE, !.sessionAuth = authenticated]

\* handleRoute up to its first pending await, lines 46-59, with ensureSession,
\* lines 30-44, and navigate, lines 70-73. matcher.match runs the handler of
\* the matched route (handled records it with the session flag of that
\* moment) before ensureSession is called. An await on a settled promise is
\* resumed in the same microtask checkpoint, so the call runs on to the
\* redirect; a call that issues fetchMe is suspended in pending.
RECURSIVE handleRoute(_, _)
handleRoute(rt, path) ==
    IF rt.matcher = None THEN rt
    ELSE LET found == match(rt.matcher[1], path)
         IN IF found = None THEN rt
            ELSE LET ran == [rt EXCEPT !.handled =
                                Append(@, [path |-> path, pattern |-> found[1].pattern,
                                           auth |-> rt.sessionAuth])]
                 IN IF path = LoginPath THEN ran
                    ELSE IF ran.sessionAuth THEN ran
                    ELSE IF ran.sessionChecked
                         THEN handleRoute([ran EXCEPT !.location = LoginPath], LoginPath)
                    ELSE [ran EXCEPT !.pending = Append(@, path),
                                     !.fetchMeCalls = @ + 1]

\* navigate, lines 70-73.
navigate(rt, path) == handleRoute([rt EXCEPT !.location = path], path)

\* The rest of a suspended handleRoute once fetchMe has settled, lines 38-43 and 54-58.
resumeRoute(rt, i, authenticated) ==
    LET marked == markSessionStatus([rt EXCEPT !.pending =
                                         SubSeq(@, 1, i - 1) \o SubSeq(@, i + 1, Len(@))],
                                    authenticated)
    IN IF authenticated THEN marked ELSE navigate(marked, LoginPath)

\* The router variables take the values of the record.
Becomes(rt) == /\ sessionChecked' = rt.sessionChecked
               /\ sessionAuth' = rt.sessionAuth
               /\ matcher' = rt.matcher
               /\ location' = rt.location
               /\ pending' = rt.pending
               /\ handled' = rt.handled
               /\ fetchMeCalls' = rt.fetchMeCalls

\* Paths the browser can be at.
Paths == {RootPath, LoginPath, <<"/", "f", "/", "a">>, <<"/", "g", "/", "a", "/", "b">>,
          <<"/", "u", "/", "x">>}

\* Handler tables given to routes(), in key order.
RouteTables == {<<RootPath, LoginPath, <<"/", "f", "/", "*">>>>,
                <<<<"/", "*">>, <<"/", "u", "/", ":", "i">>, LoginPath>>}

\* A new handleRoute call may run a handler and, after its fetchMe, the login handler.
CanStart == Len(handled) + Len(pending) + 2 <= MaxHandled

InitRouter == /\ files = <<>>
              /\ nodes = <<>>
              /\ pc = "ready"
              /\ location \in Paths
              /\ RouterAtLoad
              /\ PagesAtLoad

\* routes(table), lines 65-68; the application calls it once.
Routes == /\ matcher = None
          /\ \E table \in RouteTables :
                Becomes(handleRoute([RouterState EXCEPT !.matcher = Some(patternMatcher(table))],
                                    location))
          /\ UNCHANGED <<storageVars, pageVars>>

\* navigate(path) called by a page, lines 70-73.
Navigate == /\ CanStart
            /\ \E path \in Paths : Becomes(navigate(RouterState, path))
            /\ UNCHANGED <<storageVars, pageVars>>

\* The popstate listener, lines 61-63: the browser has moved to another entry.
PopState == /\ CanStart
            /\ \E path \in Paths : Becomes(handleRoute([RouterState EXCEPT !.location = path], path))
            /\ UNCHANGED <<storageVars, pageVars>>

\* fetchMe of a suspended call resolves with a user or with null, lines 38-40.
FetchMeResolves == /\ \E i \in 1..Len(pending) : \E me \in {Some(<<"x">>), None} :
                         Becomes(resumeRoute(RouterState, i, me # None))
                   /\ UNCHANGED <<storageVars, pageVars>>

\* fetchMe of a suspended call rejects, lines 41-43.
FetchMeRejects == /\ \E i \in 1..Len(pending) : Becomes(resumeRoute(RouterState, i, FALSE))
                  /\ UNCHANGED <<storageVars, pageVars>>

\* The login form has been submitted and login() succeeded:
\* markSessionStatus(true); navigate("/").
LoginSucceeds == /\ CanStart
                 /\ \E h \in 1..Len(handled) : handled[h].path = LoginPath
                 /\ Becomes(navigate(markSessionStatus(RouterState, TRUE), RootPath))
                 /\ UNCHANGED <<storageVars, pageVars>>

\* resetSessionStatus, lines 9-12 of session.ts.
ResetSessionStatus == /\ sessionChecked \/ sessionAuth
                      /\ sessionChecked' = FALSE
                      /\ sessionAuth' = FALSE
                      /\ fetchMeCalls' = 0
                      /\ UNCHANGED <<storageVars, pageVars, matcher, location, pending, handled>>

NextRouter == \/ Routes
              \/ Navigate
              \/ PopState
              \/ FetchMeResolves
              \/ FetchMeRejects
              \/ LoginSucceeds
              \/ ResetSessionStatus

SpecRouter == InitRouter /\ [][NextRouter]_vars

\* ---------------------------------------------------------------- storage page: loadStorage
\* What fetchStorageUsage can deliver: record lists of the server that differ
\* from one request to the next.
LoadResponses == {<<>>,
                  <<[node_id |-> <<1>>, node_name |-> EmptyStr, path |-> <<"a">>,
                     size |-> 1, last_changed |-> None]>>,
                  <<[node_id |-> <<1>>, node_name |-> EmptyStr, path |-> <<"b">>,
                     size |-> 2, last_changed |-> None]>>}

\* The messages of the errors fetchStorageUsage can throw.
LoadErrors == {<<"x">>, <<"y">>}

InitLoad == /\ files = <<>>
            /\ nodes = <<>>
            /\ pc = "ready"
            /\ location = RootPath
            /\ RouterAtLoad
            /\ PagesAtLoad

\* loadStorage up to its await, lines 407-414: the state is reset and a
\* fetch is issued; outcomes gets a slot for what this load will deliver.
StartLoad == /\ loading' = TRUE
             /\ error' = None
             /\ nodes' = <<>>
             /\ started' = started + 1
             /\ inflight' = inflight \cup {started + 1}
             /\ outcomes' = Append(outcomes, None)
             /\ UNCHANGED <<files, pc, routerVars, searchVars, apiVars>>

\* renderStorage ends with the first loadStorage, line 430.
RenderStorage == started = 0 /\ StartLoad

\* The Refresh button, lines 425-427; it is not disabled while a load is pending.
RefreshClick == started > 0 /\ started < MaxLoads /\ StartLoad

\* A pending fetchStorageUsage resolves: lines 415-416 and the finally of 419-422.
FetchStorageUsageResolves ==
    \E id \in inflight : \E response \in LoadResponses :
        /\ nodes' = buildStorageNodes(response)
        /\ loading' = FALSE
        /\ inflight' = inflight \ {id}
        /\ outcomes' = [outcomes EXCEPT ![id] =
                            Some([ok |-> TRUE, files |-> response, message |-> EmptyStr])]
        /\ UNCHANGED <<files, pc, routerVars, searchVars, apiVars, error, started>>

\* A pending fetchStorageUsage rejects: lines 417-418 and the finally of 419-422.
FetchStorageUsageRejects ==
    \E id \in inflight : \E message \in LoadErrors :
        /\ error' = Some(message)
        /\ loading' = FALSE
        /\ inflight' = inflight \ {id}
        /\ outcomes' = [outcomes EXCEPT ![id] =
                            Some([ok |-> FALSE, files |-> <<>>, message |-> message])]
        /\ UNCHANGED <<files, pc, routerVars, searchVars, apiVars, nodes, started>>

NextLoad == \/ RenderStorage
            \/ RefreshClick
            \/ FetchStorageUsageResolves
            \/ FetchStorageUsageRejects

SpecLoad == InitLoad /\ [][NextLoad]_vars

\* ---------------------------------------------------------------- search page: loadPage
defaultPageSize == 25

\* What the user can have typed into the name input.
Queries == {<<"a">>, <<"b">>}

\* What searchFiles can deliver: the number of rows of the page and the total.
SearchResponses == {[rows |-> 0, total |-> 0], [rows |-> 1, total |-> 1],
                    [rows |-> defaultPageSize, total |-> defaultPageSize + 1]}

Min(a, b) == IF a <= b THEN a ELSE b

InitSearch == /\ files = <<>>
              /\ nodes = <<>>
              /\ pc = "ready"
              /\ location = RootPath
              /\ RouterAtLoad
              /\ PagesAtLoad

\* loadPage up to its await, lines 138-150, for the input value and the page
\* given: nothing happens while a request is pending; otherwise a request
\* is issued and recorded in requests.
LoadPage(name_query, page) ==
    IF searchLoading
    THEN UNCHANGED <<searchLoading, searching, requests>>
    ELSE /\ searchLoading' = TRUE
         /\ requests' = Append(requests, [query |-> name_query, page |-> page])
         /\ searching' = Some(Len(requests) + 1)

\* The submit listener, lines 186-198, for a query typed into the input:
\* the paging state and the rows are reset and loadPage is called.
Submit == /\ Len(submits) < MaxRequests
          /\ Len(requests) < MaxRequests
          /\ \E typed \in Queries :
                /\ query' = typed
                /\ submits' = Append(submits, [query |-> typed, issued |-> Len(requests)])
                /\ LoadPage(typed, 0)
          /\ currentPage' = 0
          /\ totalResults' = 0
          /\ hasMore' = FALSE
          /\ observing' = FALSE
          /\ currentResults' = <<>>
          /\ UNCHANGED <<storageVars, routerVars, loadVars, apiVars>>

\* The IntersectionObserver callback, lines 169-173.
SentinelIntersects == /\ observing
                      /\ hasMore
                      /\ Len(requests) < MaxRequests
                      /\ LoadPage(query, currentPage)
                      /\ UNCHANGED <<currentPage, totalResults, hasMore, observing,
                                     currentResults, query, submits>>
                      /\ UNCHANGED <<storageVars, routerVars, loadVars, apiVars>>

\* The pending searchFiles resolves, lines 151-177 and the finally of 180-182.
\* A row of currentResults is the number of the request that delivered it.
SearchResolves ==
    /\ searching # None
    /\ \E data \in SearchResponses :
          /\ totalResults' = data.total
          /\ IF data.rows = 0 /\ currentPage = 0
             THEN /\ hasMore' = FALSE
                  /\ UNCHANGED <<currentResults, currentPage, observing>>
             ELSE /\ currentResults' = currentResults \o [i \in 1..data.rows |-> searching[1]]
                  /\ currentPage' = currentPage + 1
                  /\ hasMore' = (Min((currentPage + 1) * defaultPageSize, data.total) < data.total)
                  /\ observing' = hasMore'
    /\ searchLoading' = FALSE
    /\ searching' = None
    /\ UNCHANGED <<query, requests, submits>>
    /\ UNCHANGED <<storageVars, routerVars, loadVars, apiVars>>

\* The pending searchFiles rejects, lines 178-182.
SearchRejects ==
    /\ searching # None
    /\ searchLoading' = FALSE
    /\ searching' = None
    /\ UNCHANGED <<currentPage, totalResults, hasMore, observing, currentResults,
                   query, requests, submits>>
    /\ UNCHANGED <<storageVars, routerVars, loadVars, apiVars>>

NextSearch == \/ Submit
              \/ SentinelIntersects
              \/ SearchResolves
              \/ SearchRejects

SpecSearch == InitSearch /\ [][NextSearch]_vars

\* ---------------------------------------------------------------- api.ts: fetchPeers, logout
\* The peer lists the server can answer with.
PeerLists == {<<>>, <<"p">>}

Tokens == {<<"t">>}

InitApi == /\ files = <<>>
           /\ nodes = <<>>
           /\ pc = "ready"
           /\ location = RootPath
           /\ RouterAtLoad
           /\ PagesAtLoad

\* Finished logout calls, fulfilled or rejected.
LogoutsDone == Len(logoutLog)

\* setBearerToken(token), lines 36-38, with a token from a login.
SetBearerToken == /\ bearerToken = None
                  /\ \E token \in Tokens : bearerToken' = Some(token)
                  /\ UNCHANGED <<peersCache, peersPending, peerCalls, logoutPending, logoutLog, returns>>
                  /\ UNCHANGED <<storageVars, routerVars, loadVars, searchVars>>

\* fetchPeers up to its await, lines 60-62 and 65: a cached list (an empty
\* array is truthy) is returned, otherwise a request is issued. A list carries
\* the number of logouts finished when its request was issued; a return records
\* that number and the number of logouts finished when fetchPeers was called.
FetchPeers == /\ peerCalls < MaxPeerCalls
              /\ peerCalls' = peerCalls + 1
              /\ IF peersCache # None
                 THEN /\ returns' = Append(returns, [peers |-> peersCache[1].peers,
                                                     issued |-> peersCache[1].issued,
                                                     called |-> LogoutsDone])
                      /\ UNCHANGED peersPending
                 ELSE /\ peersPending' = Append(peersPending, [called |-> LogoutsDone])
                      /\ UNCHANGED returns
              /\ UNCHANGED <<bearerToken, peersCache, logoutPending, logoutLog>>
              /\ UNCHANGED <<storageVars, routerVars, loadVars, searchVars>>

\* apiGet of a suspended fetchPeers resolves, lines 62-65.
PeersResolve == /\ \E i \in 1..Len(peersPending) : \E peers \in PeerLists :
                      /\ peersCache' = Some([peers |-> peers, issued |-> peersPending[i].called])
                      /\ returns' = Append(returns, [peers |-> peers,
                                                     issued |-> peersPending[i].called,
                                                     called |-> peersPending[i].called])
                      /\ peersPending' = SubSeq(peersPending, 1, i - 1)
                                             \o SubSeq(peersPending, i + 1, Len(peersPending))
                /\ UNCHANGED <<bearerToken, peerCalls, logoutPending, logoutLog>>
                /\ UNCHANGED <<storageVars, routerVars, loadVars, searchVars>>

\* apiGet of a suspended fetchPeers throws, lines 51-56: fetchPeers rejects.
PeersReject == /\ \E i \in 1..Len(peersPending) :
                     peersPending' = SubSeq(peersPending, 1, i - 1)
                                         \o SubSeq(peersPending, i + 1, Len(peersPending))
               /\ UNCHANGED <<bearerToken, peersCache, peerCalls, logoutPending, logoutLog, returns>>
               /\ UNCHANGED <<storageVars, routerVars, loadVars, searchVars>>

\* logout up to its await, lines 172-176: the request is issued.
Logout == /\ LogoutsDone + logoutPending < MaxLogouts
          /\ logoutPending' = logoutPending + 1
          /\ UNCHANGED <<bearerToken, peersCache, peersPending, peerCalls, logoutLog, returns>>
          /\ UNCHANGED <<storageVars, routerVars, loadVars, searchVars>>

\* The logout request gets a response, whatever its status: lines 177-178.
\* logoutLog records the token and the cache the finished call leaves behind.
LogoutResolves == /\ logoutPending > 0
                  /\ logoutPending' = logoutPending - 1
                  /\ bearerToken' = None
                  /\ peersCache' = None
                  /\ logoutLog' = Append(logoutLog, [token |-> None, cache |-> None])
                  /\ UNCHANGED <<peersPending, peerCalls, returns>>
                  /\ UNCHANGED <<storageVars, routerVars, loadVars, searchVars>>

\* The logout request fails in the network: fetch rejects at the await of
\* line 173 and the call ends there.
LogoutRejects == /\ logoutPending > 0
                 /\ logoutPending' = logoutPending - 1
                 /\ logoutLog' = Append(logoutLog, [token |-> bearerToken, cache |-> peersCache])
                 /\ UNCHANGED <<bearerToken, peersCache, peersPending, peerCalls, returns>>
                 /\ UNCHANGED <<storageVars, routerVars, loadVars, searchVars>>

NextApi == \/ SetBearerToken
           \/ FetchPeers
           \/ PeersResolve
           \/ PeersReject
           \/ Logout
           \/ LogoutResolves
           \/ LogoutRejects

SpecApi == InitApi /\ [][NextApi]_vars

\* ---------------------------------------------------------------- vocabulary of the properties
RECURSIVE Flatten(_)
\* Every Entry of a tree, parents before children.
Flatten(entries) ==
    Concat([i \in 1..Len(entries) |-> <<entries[i]>> \o Flatten(entries[i].children)])

\* Every children sequence of a node with the path and size of its parent.
Levels(node) ==
    LET all == Flatten(node.entries)
    IN {[parent |-> EmptyStr, parentSize |-> node.totalSize, children |-> node.entries]}
       \cup {[parent |-> all[i].path, parentSize |-> all[i].size, children |-> all[i].children] :
                 i \in 1..Len(all)}

\* The input records of a node, in input order.
RecordsOf(node) == SelectSeq(files, LAMBDA f : formatNodeId(f.node_id) = node.id)

\* p is q or lies under q + "/".
Under(p, q) ==
    \/ p = q
    \/ Len(p) >= Len(q) + 1 /\ SubSeq(p, 1, Len(q) + 1) = q \o <<"/">>

\* A path with separators unified and empty segments dropped.
Canonical(raw) ==
    LET unified == [i \in 1..Len(raw) |-> IF raw[i] = "\\" THEN "/" ELSE raw[i]]
        kept == {i \in 1..Len(unified) :
                    unified[i] # "/" \/ (i > 1 /\ unified[i - 1] # "/" /\
                                         \E j \in (i + 1)..Len(unified) : unified[j] # "/")}
        RECURSIVE Pick(_)
        Pick(i) == IF i > Len(unified) THEN <<>>
                   ELSE IF i \in kept THEN <<unified[i]>> \o Pick(i + 1) ELSE Pick(i + 1)
    IN IF \A i \in 1..Len(unified) : unified[i] = "/" THEN <<>>
       ELSE LET first == CHOOSE i \in 1..Len(unified) :
                             unified[i] # "/" /\ \A j \in 1..(i - 1) : unified[j] = "/"
            IN Pick(first)

\* The sum of the sizes of the records at the indices ix.
SizeOver(recs, ix) == Sum([i \in 1..Len(recs) |-> recs[i].size], ix)

\* The records whose normalizePath is the path or lies under it.
NormalizedUnder(recs, path) == {i \in 1..Len(recs) : Under(normalizePath(recs[i].path), path)}

\* The records whose path without empty segments is the path or lies under it.
CanonicalUnder(recs, path) == {i \in 1..Len(recs) : Under(Canonical(recs[i].path), path)}

Done == pc = "done"

NodeIx == 1..Len(nodes)

EntriesOf(n) == Flatten(nodes[n].entries)

\* ---------------------------------------------------------------- C1
\* C1 as stated: the size of every Entry is the sum of the sizes of the node's
\* files whose normalizePath equals the Entry's path or starts with it and "/".
C1_SizeByNormalizedPath ==
    Done => \A n \in NodeIx : \A k \in 1..Len(EntriesOf(n)) :
        LET e == EntriesOf(n)[k]
        IN e.size = SizeOver(RecordsOf(nodes[n]), NormalizedUnder(RecordsOf(nodes[n]), e.path))

\* C1 amended: the size of every Entry is the sum of the sizes of the node's
\* files whose path, normalized and with its empty segments dropped, equals the
\* Entry's path or starts with it and "/".
C1_SizeByCanonicalPath ==
    Done => \A n \in NodeIx : \A k \in 1..Len(EntriesOf(n)) :
        LET e == EntriesOf(n)[k]
        IN e.size = SizeOver(RecordsOf(nodes[n]), CanonicalUnder(RecordsOf(nodes[n]), e.path))

\* An Entry "a/b" that sums a file given as "a//b" and a file given as "a/b".
C1_Witness ==
    /\ Done
    /\ \E i, j \in 1..Len(files) :
          /\ files[i].path = <<"a", "/", "/", "b">> /\ files[i].size = 2
          /\ files[j].path = <<"a", "/", "b">> /\ files[j].size = 1
    /\ \E n \in NodeIx : \E k \in 1..Len(EntriesOf(n)) :
          EntriesOf(n)[k].path = <<"a", "/", "b">> /\ EntriesOf(n)[k].size = 3

\* ---------------------------------------------------------------- C2
\* C2: the totalSize of every Node is the sum of the sizes of exactly the
\* records of its node_id, those at the root path included.
C2_TotalSizeConserved ==
    Done => \A n \in NodeIx :
        nodes[n].totalSize = SizeOver(files, {i \in 1..Len(files) : formatNodeId(files[i].node_id) = nodes[n].id})

\* Two nodes, one of them with a record at the root path and one elsewhere.
C2_Witness ==
    /\ Done
    /\ Len(nodes) = 2
    /\ \E n \in NodeIx : \E i, j \in 1..Len(files) :
          /\ formatNodeId(files[i].node_id) = nodes[n].id
          /\ formatNodeId(files[j].node_id) = nodes[n].id
          /\ normalizePath(files[i].path) = EmptyStr
          /\ normalizePath(files[j].path) # EmptyStr
          /\ nodes[n].totalSize = files[i].size + files[j].size

\* ---------------------------------------------------------------- C3
\* C3: the percent of every Entry is relative to its immediate parent:
\* percent * parentSize = size * 100, and percent = 0 when parentSize = 0.
C3_PercentOfParent ==
    Done => \A n \in NodeIx : \A lv \in Levels(nodes[n]) : \A c \in 1..Len(lv.children) :
        LET e == lv.children[c]
        IN /\ e.percent.den > 0
           /\ e.percent.num * lv.parentSize = e.size * 100 * e.percent.den
           /\ lv.parentSize = 0 => e.percent.num = 0

\* A nested Entry whose parent is smaller than the node: its percent differs
\* from its share of the node total.
C3_Witness ==
    /\ Done
    /\ \E n \in NodeIx : \E lv \in Levels(nodes[n]) : \E c \in 1..Len(lv.children) :
          /\ lv.parent # EmptyStr
          /\ lv.parentSize < nodes[n].totalSize
          /\ lv.children[c].size > 0
          /\ lv.children[c].size < lv.parentSize

\* ---------------------------------------------------------------- C4
\* C4 as stated: an Entry that is the only child of its parent has percent 100.
C4_OnlyChildIs100 ==
    Done => \A n \in NodeIx : \A lv \in Levels(nodes[n]) :
        Len(lv.children) = 1 => lv.children[1].percent.num = 100 * lv.children[1].percent.den

\* C4 amended: an Entry that is the only child of its parent has percent 100
\* when the parent's size is not 0 and the files whose own path is the
\* parent's path have sizes summing to 0.
C4_OnlyChildIs100WhenParentHoldsNothing ==
    Done => \A n \in NodeIx : \A lv \in Levels(nodes[n]) :
        (/\ Len(lv.children) = 1
         /\ lv.parentSize # 0
         /\ SizeOver(RecordsOf(nodes[n]), {i \in 1..Len(RecordsOf(nodes[n])) :
                         Canonical(RecordsOf(nodes[n])[i].path) = lv.parent}) = 0)
        => lv.children[1].percent.num = 100 * lv.children[1].percent.den

\* An only child below a non-root parent of non-zero size, at 100 percent.
C4_Witness ==
    /\ Done
    /\ \E n \in NodeIx : \E lv \in Levels(nodes[n]) :
          /\ lv.parent # EmptyStr
          /\ Len(lv.children) = 1
          /\ lv.parentSize = 2
          /\ lv.parentSize < nodes[n].totalSize
          /\ lv.children[1].percent = [num |-> 200, den |-> 2]

\* ---------------------------------------------------------------- C5
\* The index of the first record of the node whose chain holds the path.
FirstSeen(recs, path) ==
    CHOOSE i \in 1..Len(recs) :
        /\ Under(Canonical(recs[i].path), path)
        /\ \A j \in 1..(i - 1) : ~Under(Canonical(recs[j].path), path)

\* C5: in every children sequence the sizes are non-increasing, and children
\* of equal size are in the order in which their paths were first discovered.
C5_SortedStable ==
    Done => \A n \in NodeIx : \A lv \in Levels(nodes[n]) :
        \A i, j \in 1..Len(lv.children) : i < j =>
            /\ lv.children[i].size >= lv.children[j].size
            /\ lv.children[i].size = lv.children[j].size =>
                   FirstSeen(RecordsOf(nodes[n]), lv.children[i].path)
                       < FirstSeen(RecordsOf(nodes[n]), lv.children[j].path)

\* Two top-level Entries that tie at a non-zero size, and below the first of
\* them two Entries of which the larger was discovered after the smaller.
C5_Witness ==
    /\ Done
    /\ Len(nodes) = 1
    /\ Len(nodes[1].entries) = 2
    /\ nodes[1].entries[1].size = nodes[1].entries[2].size
    /\ nodes[1].entries[1].size > 0
    /\ Len(nodes[1].entries[1].children) = 2
    /\ nodes[1].entries[1].children[1].size > nodes[1].entries[1].children[2].size
    /\ FirstSeen(files, nodes[1].entries[1].children[1].path)
           > FirstSeen(files, nodes[1].entries[1].children[2].path)

\* ---------------------------------------------------------------- C6
\* C6 as stated: the itemCount of every Entry is the number of records of the
\* node whose normalizePath equals the Entry's path or is nested under it.
C6_CountByNormalizedPath ==
    Done => \A n \in NodeIx : \A k \in 1..Len(EntriesOf(n)) :
        LET e == EntriesOf(n)[k]
        IN e.itemCount = Cardinality(NormalizedUnder(RecordsOf(nodes[n]), e.path))

\* C6 amended: the itemCount of every Entry is the number of records of the
\* node (two records with one path count as two) whose path, normalized and
\* with its empty segments dropped, equals the Entry's path or is nested under it.
C6_CountByCanonicalPath ==
    Done => \A n \in NodeIx : \A k \in 1..Len(EntriesOf(n)) :
        LET e == EntriesOf(n)[k]
        IN e.itemCount = Cardinality(CanonicalUnder(RecordsOf(nodes[n]), e.path))

\* Two records with the same path and a third nested beside them: the parent
\* counts three, the shared path two.
C6_Witness ==
    /\ Done
    /\ Len(files) = 3
    /\ files[1].path = files[2].path
    /\ \E n \in NodeIx : \E k, m \in 1..Len(EntriesOf(n)) :
          /\ EntriesOf(n)[k].path = <<"a">> /\ EntriesOf(n)[k].itemCount = 3
          /\ EntriesOf(n)[m].path = <<"a", "/", "b">> /\ EntriesOf(n)[m].itemCount = 2

\* ---------------------------------------------------------------- C7
\* C7: with non-negative file sizes, 0 <= percent <= 100 for every Entry, an
\* Entry is no larger than its parent, and a top-level Entry no larger than the node.
C7_PercentInRange ==
    Done => \A n \in NodeIx : \A lv \in Levels(nodes[n]) : \A c \in 1..Len(lv.children) :
        LET e == lv.children[c]
        IN /\ e.percent.den > 0
           /\ 0 <= e.percent.num
           /\ e.percent.num <= 100 * e.percent.den
           /\ e.size <= lv.parentSize

\* A nested Entry strictly between 0 and 100 percent of its parent.
C7_Witness ==
    /\ Done
    /\ \E n \in NodeIx : \E lv \in Levels(nodes[n]) : \E c \in 1..Len(lv.children) :
          /\ lv.parent # EmptyStr
          /\ 0 < lv.children[c].percent.num
          /\ lv.children[c].percent.num < 100 * lv.children[c].percent.den

\* ---------------------------------------------------------------- C8
\* The greatest timestamp, in string order, of the selected records; None if none has one.
LatestOver(recs, ix) ==
    LET stamps == {recs[i].last_changed[1] : i \in {k \in ix : recs[k].last_changed # None}}
    IN IF stamps = {} THEN None
       ELSE Some(CHOOSE t \in stamps : \A u \in stamps : StrGeq(t, u))

\* The Entries of node n with the given path are exactly one, and it carries
\* the sums over the records at the indices ix.
MergedInto(n, path, ix) ==
    LET all == EntriesOf(n)
        hits == {k \in 1..Len(all) : all[k].path = path}
        recs == RecordsOf(nodes[n])
    IN /\ Cardinality(hits) = 1
       /\ \A k \in hits :
             /\ all[k].size = SizeOver(recs, ix)
             /\ all[k].itemCount = Cardinality(ix)
             /\ all[k].lastChanged = LatestOver(recs, ix)

\* The normalized paths that two or more of the records have.
Shared(recs) ==
    {normalizePath(recs[i].path) : i \in {k \in 1..Len(recs) :
        \E j \in 1..Len(recs) : j # k /\ normalizePath(recs[j].path) = normalizePath(recs[k].path)}}

C9_NameFromFirstNamedRecord ==
    Done => \A n \in NodeIx :
        LET recs == RecordsOf(nodes[n])
            named == {i \in 1..Len(recs) : recs[i].node_name # EmptyStr}
        IN nodes[n].name =
               IF named = {} THEN formatNodeId(recs[1].node_id)
               ELSE recs[CHOOSE i \in named : \A k \in named : i <= k].node_name

\* ---------------------------------------------------------------- C10
\* C10: there is exactly one Node for each distinct node_id of the input, two
\* records share a group exactly when their node_id sequences are equal, and
\* every record is in exactly one group.
C10_OneNodePerNodeId ==
    Done =>
        LET ids == {files[i].node_id : i \in 1..Len(files)}
            grouped == groupFiles(files)
        IN /\ Len(nodes) = Cardinality(ids)
           /\ \A id \in ids : Cardinality({n \in NodeIx : nodes[n].id = formatNodeId(id)}) = 1
           /\ Len(grouped) = Cardinality(ids)
           /\ \A g \in 1..Len(grouped) :
                 grouped[g].records = SelectSeq(files, LAMBDA f : f.node_id = grouped[g].id)
           /\ Sum([g \in 1..Len(grouped) |-> Len(grouped[g].records)], 1..Len(grouped)) = Len(files)

\* Records of the byte sequences 1,2 and 12, and two records of one node.
C10_Witness ==
    /\ Done
    /\ Len(files) = 3
    /\ files[1].node_id = <<1, 2>>
    /\ files[2].node_id = <<12>>
    /\ files[3].node_id = <<1, 2>>
    /\ Len(nodes) = 2

\* ---------------------------------------------------------------- C11
\* The index in the input of the first record of the node with this id.
FirstRecordOf(id) ==
    CHOOSE i \in 1..Len(files) :
        /\ formatNodeId(files[i].node_id) = id
        /\ \A j \in 1..(i - 1) : formatNodeId(files[j].node_id) # id

\* C11: the Node list is in non-decreasing order of name under localeCompare,
\* whatever the order of the records, and Nodes with equal names are in the
\* order in which their node_id first appeared in the input.
C11_SortedByName ==
    Done => \A i, j \in NodeIx :
        i < j => /\ localeCompare(nodes[i].name, nodes[j].name) <= 0
                 /\ nodes[i].name = nodes[j].name
                        => FirstRecordOf(nodes[i].id) < FirstRecordOf(nodes[j].id)

\* Three nodes given as "unknown", then two named "b": the output has the two
\* "b" nodes first, in their input order, and "unknown" last.
C11_Witness ==
    /\ Done
    /\ Len(files) = 3
    /\ files[1].node_id = <<>> /\ files[1].node_name = EmptyStr
    /\ files[2].node_id = <<12>> /\ files[2].node_name = <<"b">>
    /\ files[3].node_id = <<1, 2>> /\ files[3].node_name = <<"b">>
    /\ Len(nodes) = 3
    /\ nodes[1].id = <<"0", "c">> /\ nodes[2].id = <<"0", "1", "0", "2">>
    /\ nodes[1].name = nodes[2].name
    /\ nodes[3].name = <<"u", "n", "k", "n", "o", "w", "n">>

\* ---------------------------------------------------------------- C12
\* Every record of the node normalizes to the root.
AllAtRoot(recs) == \A i \in 1..Len(recs) : normalizePath(recs[i].path) = EmptyStr

\* The child paths of every edge of the edge map.
EdgeChildren(children) == UNION {{children[p][i] : i \in 1..Len(children[p])} : p \in DOMAIN children}

\* No Entry of any tree has the empty path, and no edge leads to the root.
NoRootEntry ==
    \A n \in NodeIx :
        /\ \A k \in 1..Len(EntriesOf(n)) : EntriesOf(n)[k].path # EmptyStr
        /\ EmptyStr \notin EdgeChildren(accumulate(RecordsOf(nodes[n])).children)

\* C12 as stated: the root is never an Entry; a root record adds its size to
\* totalSize without an Entry or an edge; and a node whose files all sit at the
\* root has no entries and a non-zero totalSize.
C12_RootOnlyNodeHasNonZeroTotal ==
    Done => /\ NoRootEntry
            /\ \A n \in NodeIx :
                  AllAtRoot(RecordsOf(nodes[n]))
                      => /\ nodes[n].entries = <<>>
                         /\ accumulate(RecordsOf(nodes[n])).children = EmptyMap
                         /\ nodes[n].totalSize # 0

\* C12 amended: the root is never an Entry; a root record adds its size to
\* totalSize without an Entry or an edge; and a node whose files all sit at the
\* root has no entries and a totalSize equal to the sum of the sizes of its
\* files, which is zero when all of them are empty files.
C12_RootOnlyNodeTotalIsSum ==
    Done => /\ NoRootEntry
            /\ \A n \in NodeIx :
                  AllAtRoot(RecordsOf(nodes[n]))
                      => /\ nodes[n].entries = <<>>
                         /\ accumulate(RecordsOf(nodes[n])).children = EmptyMap
                         /\ nodes[n].totalSize =
                                SizeOver(RecordsOf(nodes[n]), 1..Len(RecordsOf(nodes[n])))

\* Two root records of sizes 2 and 1: no entries, totalSize 3.
C12_Witness ==
    /\ Done
    /\ Len(files) = 2
    /\ files[1].path = <<"/">> /\ files[1].size = 2
    /\ files[2].path = <<"/">> /\ files[2].size = 1
    /\ Len(nodes) = 1
    /\ nodes[1].entries = <<>>
    /\ nodes[1].totalSize = 3

\* ---------------------------------------------------------------- C13
\* The greatest, in string order, of a non-empty set of strings.
Greatest(S) == CHOOSE s \in S : \A t \in S : StrGeq(s, t)

\* C13 as stated: lastChanged of every Entry is the greatest last_changed, in
\* string order, of the contributing files that have one, and is null exactly
\* when no contributing file has one, whatever the order of the files.
C13_LatestOfFilesWithTimestamp ==
    Done => \A n \in NodeIx : \A k \in 1..Len(EntriesOf(n)) :
        LET e == EntriesOf(n)[k]
            recs == RecordsOf(nodes[n])
            has == {i \in CanonicalUnder(recs, e.path) : recs[i].last_changed # None}
        IN IF has = {} THEN e.lastChanged = None
           ELSE e.lastChanged = Some(Greatest({recs[i].last_changed[1] : i \in has}))

\* C13 amended: an empty last_changed counts as absent. lastChanged of every
\* Entry is the greatest non-empty last_changed, in string order, of the
\* contributing files, whatever their order; when no contributing file has a
\* non-empty one, lastChanged is null or the empty string.
C13_LatestOfFilesWithNonEmptyTimestamp ==
    Done => \A n \in NodeIx : \A k \in 1..Len(EntriesOf(n)) :
        LET e == EntriesOf(n)[k]
            recs == RecordsOf(nodes[n])
            has == {i \in CanonicalUnder(recs, e.path) : Truthy(recs[i].last_changed)}
        IN IF has = {} THEN ~Truthy(e.lastChanged)
           ELSE e.lastChanged = Some(Greatest({recs[i].last_changed[1] : i \in has}))

\* "9", then no timestamp, then "10" on the same path: the Entry keeps "9".
C13_Witness ==
    /\ Done
    /\ Len(files) = 3
    /\ \A i \in 1..3 : files[i].path = <<"a">>
    /\ files[1].last_changed = Some(<<"9">>)
    /\ files[2].last_changed = None
    /\ files[3].last_changed = Some(<<"1", "0">>)
    /\ Len(nodes) = 1 /\ Len(nodes[1].entries) = 1
    /\ nodes[1].entries[1].lastChanged = Some(<<"9">>)

\* ---------------------------------------------------------------- C14
\* C14: an empty record list gives an empty Node list, a non-empty one gives
\* at least one Node, and every Node has at least one contributing record.
C14_NodesIffRecords ==
    Done => /\ Len(files) = 0 => nodes = <<>>
            /\ Len(files) > 0 => Len(nodes) >= 1
            /\ \A n \in NodeIx : Len(RecordsOf(nodes[n])) >= 1

\* The engine has run on the empty list and produced no Node.
C14_Witness == Done /\ files = <<>> /\ nodes = <<>>

\* ---------------------------------------------------------------- C15
\* The non-empty prefixes of a path that end at a segment boundary.
PrefixPaths(p) == {SubSeq(p, 1, k) : k \in {j \in 1..Len(p) : j = Len(p) \/ p[j + 1] = "/"}}

\* The non-root paths on the chains of the records.
ChainPaths(recs) == UNION {PrefixPaths(Canonical(recs[i].path)) : i \in 1..Len(recs)}

\* A path without its last segment; the root for a single segment.
ParentPath(p) ==
    LET slashes == {j \in 1..Len(p) : p[j] = "/"}
    IN IF slashes = {} THEN EmptyStr
       ELSE SubSeq(p, 1, (CHOOSE j \in slashes : \A m \in slashes : m <= j) - 1)

\* C15: the Entry paths of a node's tree are exactly the non-root chain paths
\* of its files, each occurring once, under the Entry (or root) whose path is
\* that path without its last segment; and every child of the edge map has a
\* statistics record.
C15_EntriesAreChainPaths ==
    Done => \A n \in NodeIx :
        LET recs == RecordsOf(nodes[n])
            all == EntriesOf(n)
            acc == accumulate(recs)
        IN /\ {all[k].path : k \in 1..Len(all)} = ChainPaths(recs)
           /\ Len(all) = Cardinality(ChainPaths(recs))
           /\ \A level \in Levels(nodes[n]) : \A c \in 1..Len(level.children) :
                  ParentPath(level.children[c].path) = level.parent
           /\ EdgeChildren(acc.children) \subseteq DOMAIN acc.stats

\* Three files under "a" share the edge from the root to "a": one Entry "a"
\* with the two children "a/b" and "a/c".
C15_Witness ==
    /\ Done
    /\ Len(files) = 3
    /\ files[1].path = <<"a", "/", "b">>
    /\ files[2].path = <<"a", "/", "c">>
    /\ files[3].path = <<"a", "/", "/", "b">>
    /\ Len(nodes) = 1 /\ Len(nodes[1].entries) = 1
    /\ nodes[1].entries[1].path = <<"a">>
    /\ Len(nodes[1].entries[1].children) = 2
    /\ Len(EntriesOf(1)) = 3

\* ---------------------------------------------------------------- C16
\* chain starts at the root and each later element is the previous one
\* extended by the next of the segments; the last element is the path given.
IsChainOf(chain, segs, last) ==
    /\ Len(chain) = Len(segs) + 1
    /\ chain[1] = EmptyStr
    /\ \A i \in 1..Len(segs) :
          chain[i + 1] = IF chain[i] = EmptyStr THEN segs[i] ELSE chain[i] \o <<"/">> \o segs[i]
    /\ chain[Len(chain)] = last

\* The slash-delimited segments of a normalized path; none for the root.
SegmentsOf(normalized) == IF normalized = EmptyStr THEN <<>> ELSE Split(normalized)

\* C16 as stated: the chain of every file starts with the root, grows by
\* exactly the next slash-delimited segment of the normalized path, and ends
\* with normalizePath(file.path), consecutive separators included.
C16_ChainEndsAtNormalizedPath ==
    Done => \A i \in 1..Len(files) :
        IsChainOf(ancestorsOf(files[i]), SegmentsOf(normalizePath(files[i].path)),
                  normalizePath(files[i].path))

\* C16 amended: the chain of every file starts with the root, grows by the
\* next non-empty slash-delimited segment of the normalized path, and ends
\* with the normalized path without its empty segments.
C16_ChainEndsAtCanonicalPath ==
    Done => \A i \in 1..Len(files) :
        IsChainOf(ancestorsOf(files[i]),
                  SelectSeq(SegmentsOf(normalizePath(files[i].path)), LAMBDA s : s # EmptyStr),
                  Canonical(files[i].path))

\* A file given as "a//b" whose chain is "", "a", "a/b", next to a plain "a/c".
C16_Witness ==
    /\ Done
    /\ \E i, j \in 1..Len(files) :
          /\ files[i].path = <<"a", "/", "/", "b">>
          /\ ancestorsOf(files[i]) = <<EmptyStr, <<"a">>, <<"a", "/", "b">>>>
          /\ files[j].path = <<"a", "/", "c">>
          /\ ancestorsOf(files[j]) = <<EmptyStr, <<"a">>, <<"a", "/", "c">>>>

\* ---------------------------------------------------------------- C17
\* child is parent extended by one non-empty segment.
OneSegmentBelow(child, parent) ==
    /\ Len(child) > Len(parent)
    /\ ParentPath(child) = parent
    /\ LET seg == SubSeq(child, IF parent = EmptyStr THEN 1 ELSE Len(parent) + 2, Len(child))
       IN seg # EmptyStr /\ \A j \in 1..Len(seg) : seg[j] # "/"

\* C17: every edge leads from a path to that path plus one segment, every
\* path with statistics other than the root is the child of exactly one edge,
\* and the recursion from the root ends having emitted each such path once.
C17_EdgesLengthenAndTreeIsVisitedOnce ==
    Done => \A n \in NodeIx :
        LET acc == accumulate(RecordsOf(nodes[n]))
            edges == {<<p, i>> \in (DOMAIN acc.children) \X (1..(MaxFiles + 1)) :
                          i <= Len(acc.children[p])}
            all == EntriesOf(n)
        IN /\ \A e \in edges : OneSegmentBelow(acc.children[e[1]][e[2]], e[1])
           /\ \A path \in (DOMAIN acc.stats) \ {EmptyStr} :
                  Cardinality({e \in edges : acc.children[e[1]][e[2]] = path}) = 1
           /\ Len(all) = Cardinality((DOMAIN acc.stats) \ {EmptyStr})
           /\ \A k \in 1..Len(all) : all[k].path \in (DOMAIN acc.stats) \ {EmptyStr}

\* A tree of depth two built from three files: the edges "" -> "a", "" -> "b"
\* and "a" -> "a/b", and three Entries.
C17_Witness ==
    /\ Done
    /\ Len(files) = 3
    /\ files[1].path = <<"a", "/", "b">>
    /\ files[2].path = <<"b">>
    /\ files[3].path = <<"\\", "a", "/">>
    /\ Len(nodes) = 1
    /\ accumulate(files).children =
          (EmptyStr :> <<<<"a">>, <<"b">>>>) @@ (<<"a">> :> <<<<"a", "/", "b">>>>)
    /\ Len(EntriesOf(1)) = 3

\* ---------------------------------------------------------------- C18
IsSeparator(c) == c = "/" \/ c = "\\"

\* C18: normalizePath(p) has no backslash, neither starts nor ends with "/",
\* is empty when p is empty or made of separators only, is p with every
\* backslash turned into "/" and the leading and trailing run of "/" cut off
\* (so every other character stays where it was), and is idempotent.
C18_NormalizePath ==
    Done => \A f \in 1..Len(files) :
        LET p == files[f].path
            n == normalizePath(p)
            unified == [i \in 1..Len(p) |-> IF p[i] = "\\" THEN "/" ELSE p[i]]
        IN /\ \A i \in 1..Len(n) : n[i] # "\\"
           /\ n # EmptyStr => n[1] # "/" /\ n[Len(n)] # "/"
           /\ (\A i \in 1..Len(p) : IsSeparator(p[i])) => n = EmptyStr
           /\ \E i \in 1..(Len(p) + 1) : \E j \in 0..Len(p) :
                 /\ n = SubSeq(unified, i, j)
                 /\ \A k \in (1..(i - 1)) \cup ((j + 1)..Len(p)) : unified[k] = "/"
           /\ SelectSeq(n, LAMBDA c : ~IsSeparator(c)) = SelectSeq(p, LAMBDA c : ~IsSeparator(c))
           /\ normalizePath(n) = n

\* "/a\b" is normalized to "a/b" and the tree has the Entries "a" and "a/b".
C18_Witness ==
    /\ Done
    /\ Len(files) = 1
    /\ files[1].path = <<"/", "a", "\\", "b">>
    /\ normalizePath(files[1].path) = <<"a", "/", "b">>
    /\ Len(nodes) = 1 /\ Len(EntriesOf(1)) = 2
    /\ EntriesOf(1)[2].path = <<"a", "/", "b">>

\* ---------------------------------------------------------------- C19
\* C19 as stated: the handler of a route matched for a path other than
\* "/login" is executed only while the session is authenticated; a call that
\* is redirected to "/login" has not run the handler of the requested path.
C19_HandlerOnlyWhenAuthenticated ==
    \A h \in 1..Len(handled) : handled[h].path # LoginPath => handled[h].auth

\* ---------------------------------------------------------------- C20
\* C20 as stated: a route that ends in a "*" segment, other than "/*", matches
\* a path only if every literal segment before the "*" equals the segment of
\* the path at the same position.
C20_WildcardNeedsLiteralPrefix ==
    matcher # None =>
        \A r \in 1..Len(matcher[1]) :
            LET pattern == matcher[1][r]
                patternParts == PartsOf(pattern)
                pathParts == PartsOf(location)
            IN (/\ pattern # <<"/", "*">>
                /\ Len(patternParts) > 0
                /\ patternParts[Len(patternParts)] = <<"*">>
                /\ matchRoute(pattern, location) # None)
               => \A k \in 1..(Len(patternParts) - 1) :
                      Head(patternParts[k]) # ":"
                          => k <= Len(pathParts) /\ pathParts[k] = patternParts[k]

\* ---------------------------------------------------------------- C23
\* C23 as stated: since the last resetSessionStatus (or since load) the router
\* has called fetchMe at most once, also when a handleRoute for a protected
\* path begins while the first fetchMe is still pending.
C23_FetchMeAtMostOnce == fetchMeCalls <= 1

\* ---------------------------------------------------------------- C21
\* C21 as stated: once every fetch has settled, state.nodes and state.error
\* are what the most recently started load delivered (its nodes and no error,
\* or its error and no nodes), and state.loading is false only when no fetch
\* is pending.
C21_LatestLoadWins ==
    /\ (started > 0 /\ inflight = {}) =>
           LET latest == outcomes[started][1]
           IN IF latest.ok
              THEN nodes = buildStorageNodes(latest.files) /\ error = None
              ELSE nodes = <<>> /\ error = Some(latest.message)
    /\ ~loading => inflight = {}

\* ---------------------------------------------------------------- C22
\* C22 as stated: every submit leads to a searchFiles request for page 0 with
\* the submitted query, also when a loadPage was in flight at the submit
\* (checked once no request is pending: the request has then been issued after
\* the submit), and the rows appended since the last submit come from requests
\* issued after it.
C22_SubmitIssuesRequest ==
    /\ searching = None =>
           \A s \in 1..Len(submits) :
               \E k \in (submits[s].issued + 1)..Len(requests) :
                   requests[k] = [query |-> submits[s].query, page |-> 0]
    /\ \A row \in 1..Len(currentResults) :
           submits # <<>> /\ currentResults[row] > submits[Len(submits)].issued

\* ---------------------------------------------------------------- C24
\* C24 as stated: every finished logout call, whether its request succeeded
\* or failed, leaves the bearer token and the peer cache cleared; and a
\* fetchPeers called after a logout finished never returns a list obtained by
\* a request issued before that logout.
C24_LogoutClearsAndNoStalePeers ==
    /\ \A l \in 1..Len(logoutLog) : logoutLog[l].token = None /\ logoutLog[l].cache = None
    /\ \A r \in 1..Len(returns) : returns[r].issued >= returns[r].called

====
